---------------------------- MODULE Spec2Model ----------------------------
(***************************************************************************)
(* The smasher of refinebio (workers/data_refinery_workers/processors/     *)
(* smasher.py): the inner join of the per-sample frames of one key         *)
(* (_inner_join) and the run of smash, stage by stage.                     *)
(*                                                                         *)
(* Two specifications share the variables:                                 *)
(*   Spec      one run of smash (start_job ... end_job, then _notify)      *)
(*   SpecJoin  one call of _inner_join, one loop iteration per step        *)
(***************************************************************************)
EXTENDS Integers, Sequences, FiniteSets, TLC

VARIABLES
    pc,               \* where the run is: the stage or loop about to execute
    job,              \* job_context['job']: the ProcessorJob record
    dataset,          \* job_context['dataset']: the Dataset object in memory
    saved,            \* the Dataset row as last persisted by dataset.save()
    job_context,      \* the other keys of the job_context dictionary
    items,            \* the (key, input_files) pairs _smash_all has still to visit
    RUNNING_IN_CLOUD, \* settings.RUNNING_IN_CLOUD
    trace,            \* history: the stages invoked so far, in order
    emails,           \* history: the messages accepted by the mail service
    slack,            \* history: the alerts posted to the operations channel
    events,           \* history: what went wrong so far in the run
    warnings,         \* the logger.warning calls of _inner_join / process_frames_for_key
    outfiles,         \* the keys for which <key>.tsv was written
    merged,           \* _inner_join: the accumulator
    i,                \* _inner_join: the loop index (0-based, as in the source)
    old_len_merged,   \* _inner_join: len(merged) before the step
    merged_backup,    \* _inner_join: the snapshot restored on an empty join
    accepted,         \* history: positions (0-based) of the frames merged into the accumulator
    species,          \* _generate_files: the species dictionary, changed in place
    given,            \* history: the species dictionary as passed to _generate_files
    url_builder,      \* _generate_files: the object returned by the factory
    all_new_files,    \* _generate_files: the source_filename of each OriginalFile saved
    job_found,        \* download_array_express: a DownloaderJob with this id exists
    batches,          \* download_array_express: the download_url of each batch of the job
    success,          \* download_array_express: the local success
    temp_directory,   \* the job's temporary directory exists
    zip_ref,          \* _extract_file: the local zip_ref
    raised,           \* history: <<original exception, exception _extract_file raised>>
    calls             \* history: the calls download_array_express made, and the
                      \* normal return of _download_file, in order

joinVars == <<merged, i, old_len_merged, merged_backup, accepted>>
runVars  == <<job, dataset, saved, items, RUNNING_IN_CLOUD, trace, emails, slack,
              events, outfiles>>
surveyVars   == <<species, given, url_builder, all_new_files>>
downloadVars == <<job_found, batches, success, temp_directory, zip_ref, raised, calls>>
vars     == <<pc, job_context, warnings, joinVars, runVars, surveyVars, downloadVars>>

\* no species is being surveyed
NoSurvey ==
    /\ species = <<>>
    /\ given = <<>>
    /\ url_builder = "None"
    /\ all_new_files = <<>>

\* no downloader job is running
NoDownload ==
    /\ job_found = FALSE
    /\ batches = <<>>
    /\ success = "None"
    /\ temp_directory = FALSE
    /\ zip_ref = "unbound"
    /\ raised = <<>>
    /\ calls = <<>>

-----------------------------------------------------------------------------
(* Bounds *)

\* SpecJoin: the largest number of frames handed to one call of _inner_join
MaxFrames == 3

\* Spec: the largest number of input files of a dataset, all keys together
MaxInputFiles == 3

\* the batches of a downloader job: at most this many
MaxBatches == 3

\* Spec: the keys (species names or experiment accessions) a dataset may have
KeyNames == <<"K1", "K2">>

\* feature identifiers (row labels) and sample identifiers (column labels)
Features == {"A", "B"}
Samples  == {"s1", "s2"}

-----------------------------------------------------------------------------
(* Data frames *)

Range(s) == {s[n] : n \in DOMAIN s}

\* position of label x in the sequence s of distinct labels
Pos(s, x) == CHOOSE n \in DOMAIN s : s[n] = x

\* The content of a cell: the frame (file) it was loaded from and its labels
\* there; qn and scaled tell whether normalization / scaling rewrote the value.
Cell(k, r, c) == [src |-> k, row |-> r, col |-> c, qn |-> FALSE, scaled |-> "NONE"]

\* A data frame: row labels (the index), column labels, and one cell per
\* (row position, column position).
Frame(k, idx, cols) ==
    [index   |-> idx,
     columns |-> cols,
     data    |-> [p \in (1..Len(idx)) \X (1..Len(cols)) |->
                     Cell(k, idx[p[1]], cols[p[2]])]]

\* pd.DataFrame(): no rows, no columns
EmptyFrame == Frame(0, <<>>, <<>>)

\* The shapes a loaded frame may have: rows keyed by distinct feature
\* identifiers, zero to two distinct sample columns.
IndexShapes  == {<<>>, <<"A">>, <<"B">>, <<"A", "B">>}
ColumnShapes == {<<>>, <<"s1">>, <<"s2">>, <<"s1", "s2">>}
Shapes       == IndexShapes \X ColumnShapes

\* the frame list built from a sequence of shapes: frame k carries the cells of file k
FramesOf(shapes) == [k \in DOMAIN shapes |-> Frame(k, shapes[k][1], shapes[k][2])]

ShapeLists(lo, hi) == UNION {[1..n -> Shapes] : n \in lo..hi}

\* len(frame)
len(frame) == Len(frame.index)

InSeq(x, s) == \E n \in DOMAIN s : s[n] = x

\* left.merge(right, how='outer', ...): a join that keeps every row (mutant)
merge_outer(left, right) ==
    LET extra == SelectSeq(right.index, LAMBDA r : ~InSeq(r, left.index))
        idx   == left.index \o extra
        nl    == Len(left.columns)
    IN  [index   |-> idx,
         columns |-> left.columns \o right.columns,
         data    |-> [p \in (1..Len(idx)) \X (1..(nl + Len(right.columns))) |->
                        IF p[2] <= nl
                        THEN IF InSeq(idx[p[1]], left.index)
                             THEN left.data[<<Pos(left.index, idx[p[1]]), p[2]>>]
                             ELSE Cell(0, idx[p[1]], left.columns[p[2]])
                        ELSE IF InSeq(idx[p[1]], right.index)
                             THEN right.data[<<Pos(right.index, idx[p[1]]), p[2] - nl>>]
                             ELSE Cell(0, idx[p[1]], right.columns[p[2] - nl])]]

\* left.merge(right, how='inner', left_index=True, right_index=True) for
\* frames whose row labels are distinct: the rows both frames have, the
\* columns of left followed by the columns of right, every cell from its frame.
merge(left, right) ==
    LET idx == SelectSeq(left.index, LAMBDA r : InSeq(r, right.index))
        nl  == Len(left.columns)
    IN  [index   |-> idx,
         columns |-> left.columns \o right.columns,
         data    |-> [p \in (1..Len(idx)) \X (1..(nl + Len(right.columns))) |->
                        IF p[2] <= nl
                        THEN left.data[<<Pos(left.index, idx[p[1]]), p[2]>>]
                        ELSE right.data[<<Pos(right.index, idx[p[1]]), p[2] - nl>>]]]

-----------------------------------------------------------------------------
(* _inner_join, one iteration of the while loop *)

Warning(msg, column, n) == [msg |-> msg, column |-> column, bad_frame_number |-> n]

\* a duplicate check that looks at the lead column only (mutant)
breaker_first_only(m, frame) ==
    Len(frame.columns) > 0 /\ InSeq(frame.columns[1], m.columns)

\* lines 106-109: breaker is set when some column of frame is in merged.columns
breaker(m, frame) == \E c \in DOMAIN frame.columns : InSeq(frame.columns[c], m.columns)

\* a rollback that forgets to restore the snapshot (mutant)
rollback_no_restore(backup, frame, unsmashable_files) ==
    [merged            |-> merge(backup, frame),
     unsmashable_files |-> IF Len(frame.columns) > 0
                           THEN Append(unsmashable_files, frame.columns[1])
                           ELSE unsmashable_files]

\* lines 128-141, the rollback of an empty join: the accumulator is the
\* snapshot again and frame.columns[0] is appended to unsmashable_files; the
\* IndexError of a frame without columns is swallowed.
rollback(backup, frame, unsmashable_files) ==
    [merged            |-> backup,
     unsmashable_files |-> IF Len(frame.columns) > 0
                           THEN Append(unsmashable_files, frame.columns[1])
                           ELSE unsmashable_files]

\* a duplicate-column step that merges the columns not yet present (mutant)
skip_partial(m, frame) ==
    LET cols == SelectSeq(frame.columns, LAMBDA c : ~InSeq(c, m.columns))
        part == [index   |-> frame.index,
                 columns |-> cols,
                 data    |-> [p \in (1..Len(frame.index)) \X (1..Len(cols)) |->
                                frame.data[<<p[1], Pos(frame.columns, cols[p[2]])>>]]]
    IN  merge(m, part)

\* lines 111-116: the accumulator after a frame with a repeated column
skip(m, frame) == m

\* lines 121-127: the warning logged when the join dropped rows
dropped_rows(joined, old_len) ==
    IF len(joined) < old_len
    THEN <<Warning("Dropped rows while smashing!", "None", 0)>>
    ELSE <<>>

\* lines 128-141, given the result rb of rollback
rolled_back(rb, logged, n) ==
    [merged            |-> rb.merged,
     unsmashable_files |-> rb.unsmashable_files,
     warnings          |-> logged \o <<Warning("Skipping a bad merge frame!", "None", n)>>,
     skipped           |-> FALSE,
     committed         |-> FALSE]

\* a loop that commits the join even when it has no rows (mutant)
after_join_no_rollback(joined, backup, old_len, frame, n, unsmashable_files) ==
    [merged            |-> joined,
     unsmashable_files |-> unsmashable_files,
     warnings          |-> dropped_rows(joined, old_len),
     skipped           |-> FALSE,
     committed         |-> TRUE]

\* lines 121-144, given the result of the join of line 119
after_join(joined, backup, old_len, frame, n, unsmashable_files) ==
    IF len(joined) = 0
    THEN rolled_back(rollback(backup, frame, unsmashable_files),
                     dropped_rows(joined, old_len), n)
    ELSE [merged            |-> joined,
          unsmashable_files |-> unsmashable_files,
          warnings          |-> dropped_rows(joined, old_len),
          skipped           |-> FALSE,
          committed         |-> TRUE]

\* lines 96-144: one iteration, for the accumulator m (with its snapshot and
\* old length), the candidate frame, and the value n of i after line 97.
\* The result is the new accumulator, the new unsmashable_files, the warnings
\* logged, whether the iteration ended at `continue` (skipped) and whether
\* the join was committed.  The column of the warning is the loop variable
\* `column` after the for loop of line 107, the last column of the frame.
iteration(m, backup, old_len, frame, n, unsmashable_files) ==
    IF breaker(m, frame)
    THEN [merged            |-> skip(m, frame),
          unsmashable_files |-> unsmashable_files,
          warnings          |-> <<Warning("Column repeated for smash job!",
                                          frame.columns[Len(frame.columns)], 0)>>,
          skipped           |-> TRUE,
          committed         |-> FALSE]
    ELSE after_join(merge(m, frame), backup, old_len, frame, n, unsmashable_files)

\* lines 89-93: the locals of _inner_join before the loop
before_loop(frames, unsmashable_files) ==
    [merged            |-> frames[1],
     merged_backup     |-> frames[1],
     old_len_merged    |-> len(frames[1]),
     unsmashable_files |-> unsmashable_files,
     warnings          |-> <<>>,
     accepted          |-> {0}]

\* a loop that refreshes the snapshot only after a rollback, so that it goes
\* stale when a join is committed (mutant)
end_of_iteration_stale_backup(s, r, n) ==
    [merged            |-> r.merged,
     merged_backup     |-> IF r.committed THEN s.merged_backup ELSE r.merged,
     old_len_merged    |-> IF r.skipped THEN s.old_len_merged ELSE len(r.merged),
     unsmashable_files |-> r.unsmashable_files,
     warnings          |-> s.warnings \o r.warnings,
     accepted          |-> IF r.committed THEN s.accepted \cup {n - 1} ELSE s.accepted]

\* lines 143-144 (not reached after `continue`), given the result r of the
\* iteration on all_frames[n - 1]; accepted is history, the positions of the
\* frames merged into the accumulator
end_of_iteration(s, r, n) ==
    [merged            |-> r.merged,
     merged_backup     |-> IF r.skipped THEN s.merged_backup ELSE r.merged,
     old_len_merged    |-> IF r.skipped THEN s.old_len_merged ELSE len(r.merged),
     unsmashable_files |-> r.unsmashable_files,
     warnings          |-> s.warnings \o r.warnings,
     accepted          |-> IF r.committed THEN s.accepted \cup {n - 1} ELSE s.accepted]

\* lines 95-144: the locals after the iteration on frame that ends with i = n
loop_body(s, frame, n) ==
    end_of_iteration(s, iteration(s.merged, s.merged_backup, s.old_len_merged, frame, n,
                                  s.unsmashable_files), n)

\* lines 89-146: _inner_join as a function of all_frames and unsmashable_files.
\* after[n] is the state of the loop when i = n (frames is 1-based here, so
\* frames[n] is all_frames[n - 1]); the result is the state the loop ends in.
_inner_join(frames, unsmashable_files) ==
    LET after[n \in 1..Len(frames)] ==
            IF n = 1
            THEN before_loop(frames, unsmashable_files)
            ELSE loop_body(after[n - 1], frames[n], n)
    IN  after[Len(frames)]

-----------------------------------------------------------------------------
(* The records of a run *)

\* a ProcessorJob that has not failed: success is NULL, no failure reason
NewJob == [success |-> "None", failure_reason |-> "None"]

\* a Dataset about to be processed
NewDataset(quantile_normalize, quant_sf_only, scale_by, email_address) ==
    [success            |-> "None",
     failure_reason     |-> "None",
     quantile_normalize |-> quantile_normalize,
     quant_sf_only      |-> quant_sf_only,
     scale_by           |-> scale_by,
     email_address      |-> email_address,
     is_processing      |-> TRUE,
     is_processed       |-> FALSE,
     is_available       |-> FALSE,
     s3_key             |-> "None"]

\* the job_context dictionary; a key that is not set is "None", or the empty
\* sequence where the value is a list, a frame <<f>> or the dictionary <<d>>
NewContext(upload) ==
    [upload            |-> upload,
     input_files       |-> <<>>,
     unsmashable_files |-> <<>>,
     num_samples       |-> 0,
     all_frames        |-> <<>>,
     original_merged   |-> <<>>,
     merged_no_qn      |-> <<>>,
     merged_qn         |-> <<>>,
     final_frame       |-> <<>>,
     smash_outfile     |-> "None",
     output_file       |-> "None",
     result_url        |-> "None",
     failure_reason    |-> "None",
     success           |-> "None"]

-----------------------------------------------------------------------------
(* SpecJoin: one call of _inner_join on a non-empty frame list *)

\* lines 89-93, for every frame list of 1..MaxFrames frames; unsmashable_files
\* may already hold the file of a sample that could not be loaded
InitJoin ==
    /\ pc = "_inner_join"
    /\ \E shapes \in ShapeLists(1, MaxFrames), before \in {<<>>, <<"K1/f0">>} :
          /\ job_context = [NewContext(TRUE) EXCEPT
                               !.all_frames = FramesOf(shapes),
                               !.unsmashable_files = before]
          /\ merged = FramesOf(shapes)[1]
          /\ merged_backup = FramesOf(shapes)[1]
          /\ old_len_merged = Len(shapes[1][1])
    /\ i = 1
    /\ accepted = {0}
    /\ warnings = <<>>
    /\ job = NewJob
    /\ dataset = NewDataset(FALSE, FALSE, "NONE", "")
    /\ saved = NewDataset(FALSE, FALSE, "NONE", "")
    /\ items = <<>>
    /\ RUNNING_IN_CLOUD = FALSE
    /\ trace = <<>>
    /\ emails = <<>>
    /\ slack = <<>>
    /\ events = {}
    /\ outfiles = {}
    /\ NoSurvey
    /\ NoDownload

\* the locals of _inner_join
Locals ==
    [merged            |-> merged,
     merged_backup     |-> merged_backup,
     old_len_merged    |-> old_len_merged,
     unsmashable_files |-> job_context.unsmashable_files,
     warnings          |-> warnings,
     accepted          |-> accepted]

\* the step to the locals s, leaving the loop index at n
LoopStep(s, n) ==
    /\ i' = n
    /\ merged' = s.merged
    /\ merged_backup' = s.merged_backup
    /\ old_len_merged' = s.old_len_merged
    /\ job_context' = [job_context EXCEPT !.unsmashable_files = s.unsmashable_files]
    /\ warnings' = s.warnings
    /\ accepted' = s.accepted

\* a loop that steps over the frame after one with a repeated column (mutant)
InnerJoinLoop_steps_over ==
    /\ pc = "_inner_join"
    /\ i < Len(job_context.all_frames)
    /\ LoopStep(loop_body(Locals, job_context.all_frames[i + 1], i + 1),
                IF breaker(merged, job_context.all_frames[i + 1]) THEN i + 2 ELSE i + 1)
    /\ UNCHANGED <<pc, runVars, surveyVars, downloadVars>>

\* lines 95-144: one iteration of the while loop
InnerJoinLoop ==
    /\ pc = "_inner_join"
    /\ i < Len(job_context.all_frames)
    /\ LoopStep(loop_body(Locals, job_context.all_frames[i + 1], i + 1), i + 1)
    /\ UNCHANGED <<pc, runVars, surveyVars, downloadVars>>

\* line 146: return merged
InnerJoinReturn ==
    /\ pc = "_inner_join"
    /\ i >= Len(job_context.all_frames)
    /\ pc' = "joined"
    /\ UNCHANGED <<job_context, warnings, joinVars, runVars, surveyVars, downloadVars>>

NextJoin == InnerJoinLoop \/ InnerJoinReturn

SpecJoin == InitJoin /\ [][NextJoin]_vars

\* the interpreter goes on executing the loop and the return statement
SpecJoinFair == SpecJoin /\ WF_vars(NextJoin)

-----------------------------------------------------------------------------
(* Spec: one run of smash *)

\* lines 556-561: the stages handed to run_pipeline
Pipeline ==
    <<"start_job", "prepare_files", "_smash_all", "_upload", "_update_result_objects",
      "end_job">>

\* smash that returns without notifying once the job is marked failed (mutant)
after_pipeline_unless_failed == IF job.success = "False" THEN "returned" ELSE "_notify"

\* lines 562-563: what smash does when run_pipeline has returned
after_pipeline == "_notify"

\* run_pipeline: the stage invoked after `stage`; a stage that marked the job
\* failed does not end the run
StageAfter(stage) ==
    IF Pos(Pipeline, stage) < Len(Pipeline)
    THEN Pipeline[Pos(Pipeline, stage) + 1]
    ELSE after_pipeline

\* "Failure reason: " + str(e)
FailureReason(e) == "Failure reason: " \o e

\* the objects a stage works on
St == [job |-> job, dataset |-> dataset, saved |-> saved, job_context |-> job_context]

Becomes(st) ==
    /\ job' = st.job
    /\ dataset' = st.dataset
    /\ saved' = st.saved
    /\ job_context' = st.job_context

\* run_pipeline, an exception escaping a stage: the executor records the
\* failure reason, marks the job unsuccessful and goes on
captured(st, e) ==
    [st EXCEPT !.job = [@ EXCEPT !.success = "False", !.failure_reason = e],
               !.job_context = [@ EXCEPT !.failure_reason = e]]

\* utils.start_job, first stage of the pipeline
StartJob ==
    /\ pc = "start_job"
    /\ trace' = Append(trace, "start_job")
    /\ pc' = StageAfter("start_job")
    /\ UNCHANGED <<job, dataset, saved, job_context, items, RUNNING_IN_CLOUD, emails,
                   slack, events, outfiles, warnings, joinVars, surveyVars, downloadVars>>

\* the dictionaries prepare_files may leave in job_context['input_files']: for
\* each key of the dataset, in order, the number of its input files
InputFiles ==
    {<<>>}
    \cup {<<[key |-> KeyNames[1], files |-> a]>> : a \in 0..MaxInputFiles}
    \cup {<<[key |-> KeyNames[1], files |-> c[1]], [key |-> KeyNames[2], files |-> c[2]]>> :
             c \in {x \in (0..MaxInputFiles) \X (0..MaxInputFiles) :
                       x[1] + x[2] <= MaxInputFiles}}

\* smashing_utils.prepare_files: fills job_context['input_files'], or raises
PrepareFiles ==
    /\ pc = "prepare_files"
    /\ trace' = Append(trace, "prepare_files")
    /\ \/ /\ \E d \in InputFiles :
                /\ \A n \in DOMAIN d : d[n].key = KeyNames[n]
                /\ job_context' = [job_context EXCEPT !.input_files = <<d>>]
          /\ UNCHANGED <<job, dataset, saved, events>>
       \/ /\ Becomes(captured(St, "prepare_files raised"))
          /\ events' = events \cup {"stage_raised"}
    /\ pc' = StageAfter("prepare_files")
    /\ UNCHANGED <<items, RUNNING_IN_CLOUD, emails, slack, outfiles, warnings, joinVars, surveyVars, downloadVars>>

\* lines 306-321: _smash_all up to the head of the loop over the keys
SmashAllBegin ==
    /\ pc = "_smash_all"
    /\ trace' = Append(trace, "_smash_all")
    /\ IF job.success = "False"
       THEN \* line 308: we have already failed
            /\ pc' = StageAfter("_smash_all")
            /\ UNCHANGED <<job_context, items>>
       ELSE /\ Len(job_context.input_files) = 1
            /\ job_context' = [job_context EXCEPT !.unsmashable_files = <<>>,
                                                  !.num_samples = 0,
                                                  !.input_files = <<>>]
            /\ items' = job_context.input_files[1]
            /\ pc' = "smash_keys"
    /\ UNCHANGED <<job, dataset, saved, RUNNING_IN_CLOUD, emails, slack, events, outfiles,
                   warnings, joinVars, surveyVars, downloadVars>>

\* computed_file.filename of the j-th input file of key
FileName(key, j) == key \o "/f" \o ToString(j)

\* What smashing_utils.process_frame may return for an input file of a run:
\* <<>> for None (the file is unusable), or <<shape>> for a frame.  The
\* frames are a two-row sample s1, a sample s2 sharing row A with it, and a
\* frame s1 on row B alone (repeats column s1; shares no row with s2 on A).
RunShapes ==
    {<< <<"A", "B">>, <<"s1">> >>, << <<"A">>, <<"s2">> >>, << <<"B">>, <<"s1">> >>}

Loaded(n) == [1..n -> {<<>>} \cup {<<sh>> : sh \in RunShapes}]

\* the positions of the input files, in order
Positions(s) == [j \in DOMAIN s |-> j]

\* process_frames_for_key that drops the record of unusable files (mutant)
process_frames_for_key_silent(ctx, key, loaded) ==
    LET usable == SelectSeq(Positions(loaded), LAMBDA j : Len(loaded[j]) = 1)
    IN  [ctx EXCEPT
            !.original_merged = <<EmptyFrame>>,
            !.all_frames = [k \in DOMAIN usable |->
                               Frame(usable[k], loaded[usable[k]][1][1],
                                     loaded[usable[k]][1][2])]]

\* lines 161-186: every input file of the key is loaded; its frame goes to
\* all_frames, or its file name to unsmashable_files when the loader gave None
process_frames_for_key(ctx, key, loaded) ==
    LET usable   == SelectSeq(Positions(loaded), LAMBDA j : Len(loaded[j]) = 1)
        unusable == SelectSeq(Positions(loaded), LAMBDA j : Len(loaded[j]) = 0)
    IN  [ctx EXCEPT
            !.original_merged = <<EmptyFrame>>,
            !.all_frames = [k \in DOMAIN usable |->
                               Frame(usable[k], loaded[usable[k]][1][1],
                                     loaded[usable[k]][1][2])],
            !.unsmashable_files = @ \o [k \in DOMAIN unusable |->
                                           FileName(key, unusable[k])]]

\* merged.transpose()
transpose(frame) ==
    [index   |-> frame.columns,
     columns |-> frame.index,
     data    |-> [p \in (1..Len(frame.columns)) \X (1..Len(frame.index)) |->
                     frame.data[<<p[2], p[1]>>]]]

\* lines 266-271: the scaler fitted to and applied on the transposed frame;
\* labels are kept, every value is rewritten
scaled(frame, scale_by) ==
    [frame EXCEPT !.data = [p \in DOMAIN @ |-> [@[p] EXCEPT !.scaled = scale_by]]]

\* the matrix the normalization service returns: same labels, every value rewritten
quantile_normalized(frame) ==
    [frame EXCEPT !.data = [p \in DOMAIN @ |-> [@[p] EXCEPT !.qn = TRUE]]]

\* a scaling step that forgets to transpose back (mutant)
final_frame_left_transposed(m, scale_by) ==
    IF scale_by # "NONE"
    THEN scaled(transpose(m), scale_by)
    ELSE transpose(m)

\* lines 262-280: transpose, scale unless scale_by is NONE, transpose back
final_frame(m, scale_by) ==
    IF scale_by # "NONE"
    THEN transpose(scaled(transpose(m), scale_by))
    ELSE transpose(transpose(m))

\* lines 238-253: quantile normalization failed with exception e
qn_failed(st, e) ==
    LET first == st.job.failure_reason = "None"
        ds    == [st.dataset EXCEPT
                     !.success = "False",
                     !.failure_reason = IF first THEN FailureReason(e) ELSE @]
    IN  [job         |-> [st.job EXCEPT
                             !.failure_reason = IF first THEN FailureReason(e) ELSE @,
                             !.success = "False"],
         dataset     |-> ds,
         saved       |-> ds,
         job_context |-> [st.job_context EXCEPT !.failure_reason = e]]

\* what the call of smashing_utils.quantile_normalize may do: set merged_qn
\* ("ok"), raise ("raise"), or return without setting merged_qn ("unset")
QnOutcomes == {"ok", "raise", "unset"}

NoMergedQn == "Problem occured during quantile normalization: No merged_qn"

\* the events of a key that are no failures: samples left out
Absorbed(loaded, logged) ==
    (IF \E j \in DOMAIN loaded : Len(loaded[j]) = 0 THEN {"unusable"} ELSE {})
    \cup (IF \E w \in Range(logged) : w.msg = "Column repeated for smash job!"
          THEN {"duplicate"} ELSE {})
    \cup (IF \E w \in Range(logged) : w.msg = "Skipping a bad merge frame!"
          THEN {"rollback"} ELSE {})

\* the result of _smash_key: the objects afterwards, the <key>.tsv to write
\* (<<>> when the function returns before line 296), the warnings of the join
\* and the events
KeyResult(st, outfile, logged, happened) ==
    [st |-> st, outfile |-> outfile, warnings |-> logged, events |-> happened]

WithContext(st, ctx) == [st EXCEPT !.job_context = ctx]

\* lines 256-300: scale the matrix m and write it
scale_and_write(st, ctx, m, key, logged, happened) ==
    KeyResult(WithContext(st, [ctx EXCEPT
                                  !.final_frame = <<final_frame(m, st.dataset.scale_by)>>,
                                  !.smash_outfile = key]),
              <<key>>, logged, happened)

\* lines 233-253, given the context ctx the normalization service returned
after_quantile_normalize(st, ctx, key, logged, happened) ==
    IF Len(ctx.merged_qn) = 0
    THEN \* the assertion of line 237 fails
         KeyResult(qn_failed(WithContext(st, ctx), NoMergedQn), <<>>, logged,
                   happened \cup {"qn_failed"})
    ELSE scale_and_write(st, ctx, ctx.merged_qn[1], key, logged, happened)

\* lines 228-253: quantile normalization of the merged matrix m; q is what
\* smashing_utils.quantile_normalize does
quantile_normalization(st, ctx, m, q, key, logged, happened) ==
    IF q = "raise"
    THEN KeyResult(qn_failed(WithContext(st, ctx), "QN service error"), <<>>, logged,
                   happened \cup {"qn_failed"})
    ELSE after_quantile_normalize(
             st,
             IF q = "ok" THEN [ctx EXCEPT !.merged_qn = <<quantile_normalized(m)>>] ELSE ctx,
             key, logged, happened)

\* a _smash_key that normalizes whatever the dataset asks for (mutant)
after_inner_join_always_qn(st, ctx, j, q, key, happened) ==
    quantile_normalization(st,
                           [ctx EXCEPT !.unsmashable_files = j.unsmashable_files,
                                       !.original_merged = <<j.merged>>,
                                       !.merged_no_qn = <<j.merged>>],
                           j.merged, q, key, j.warnings,
                           happened \cup Absorbed(<<>>, j.warnings))

\* lines 223-300, given the result j of _inner_join
after_inner_join(st, ctx, j, q, key, happened) ==
    IF st.dataset.quantile_normalize
    THEN quantile_normalization(st,
                            [ctx EXCEPT !.unsmashable_files = j.unsmashable_files,
                                        !.original_merged = <<j.merged>>,
                                        !.merged_no_qn = <<j.merged>>],
                            j.merged, q, key, j.warnings,
                            happened \cup Absorbed(<<>>, j.warnings))
    ELSE scale_and_write(st,
                         [ctx EXCEPT !.unsmashable_files = j.unsmashable_files,
                                     !.original_merged = <<j.merged>>],
                         j.merged, key, j.warnings,
                         happened \cup Absorbed(<<>>, j.warnings))

\* a _smash_key that writes an empty matrix for a key with no usable frame (mutant)
after_process_frames_writes_empty(st, ctx, q, key, happened) ==
    IF Len(ctx.all_frames) < 1
    THEN scale_and_write(st, ctx, EmptyFrame, key, <<>>, happened)
    ELSE after_inner_join(st, ctx, _inner_join(ctx.all_frames, ctx.unsmashable_files),
                          q, key, happened)

\* a _smash_key that fails the job when a key has no usable frame (mutant)
after_process_frames_no_frames_fatal(st, ctx, q, key, happened) ==
    IF Len(ctx.all_frames) < 1
    THEN KeyResult(qn_failed(WithContext(st, ctx), "no usable frame"), <<>>, <<>>, happened)
    ELSE after_inner_join(st, ctx, _inner_join(ctx.all_frames, ctx.unsmashable_files),
                          q, key, happened)

\* lines 211-300, given the context ctx process_frames_for_key returned
after_process_frames(st, ctx, q, key, happened) ==
    IF Len(ctx.all_frames) < 1
    THEN KeyResult(WithContext(st, ctx), <<>>, <<>>, happened)
    ELSE after_inner_join(st, ctx, _inner_join(ctx.all_frames, ctx.unsmashable_files),
                          q, key, happened)

\* lines 209-300: _smash_key for a dataset that is not quant_sf_only, given
\* what the loader returns for each input file (loaded) and what the
\* normalization service does (q)
_smash_key(st, key, loaded, q) ==
    after_process_frames(st, process_frames_for_key(st.job_context, key, loaded), q, key,
                         Absorbed(loaded, <<>>))

\* an except clause that fails the dataset but forgets the job (mutant)
smash_all_except_dataset_only(st, e) ==
    LET ds == [st.dataset EXCEPT !.success = "False",
                                 !.failure_reason = FailureReason(e)]
    IN  [job         |-> st.job,
         dataset     |-> ds,
         saved       |-> ds,
         job_context |-> [st.job_context EXCEPT !.failure_reason = e]]

\* an except clause that records the reason but leaves the flags alone (mutant)
smash_all_except_flags_untouched(st, e) ==
    LET ds == [st.dataset EXCEPT !.failure_reason = FailureReason(e)]
    IN  [job         |-> [st.job EXCEPT !.failure_reason = FailureReason(e)],
         dataset     |-> ds,
         saved       |-> ds,
         job_context |-> [st.job_context EXCEPT !.failure_reason = e]]

\* lines 330-342: the except clause of _smash_all
smash_all_except(st, e) ==
    LET ds == [st.dataset EXCEPT !.success = "False",
                                 !.failure_reason = FailureReason(e)]
    IN  [job         |-> [st.job EXCEPT !.failure_reason = FailureReason(e),
                                        !.success = "False"],
         dataset     |-> ds,
         saved       |-> ds,
         job_context |-> [st.job_context EXCEPT !.failure_reason = e]]

\* _smash_key returned r: the loop of line 321 goes on
KeyReturned(r) ==
    /\ Becomes(r.st)
    /\ outfiles' = outfiles \cup Range(r.outfile)
    /\ warnings' = r.warnings
    /\ events' = events \cup r.events
    /\ items' = Tail(items)
    /\ pc' = "smash_keys"

\* lines 293-296 raise (makedirs or to_csv) where _smash_key would have
\* returned r: the except clause of _smash_all ends the stage
KeyRaised(r) ==
    /\ r.outfile # <<>>
    /\ Becomes(smash_all_except(r.st, "cannot write the matrix"))
    /\ warnings' = r.warnings
    /\ events' = events \cup r.events \cup {"packaging_failed"}
    /\ items' = <<>>
    /\ pc' = StageAfter("_smash_all")
    /\ UNCHANGED outfiles

\* a quant_sf_only branch that goes on to write a matrix for the key (mutant)
QuantSfOnly_writes_matrix(n) ==
    /\ \E copied \in 0..n : job_context' = [job_context EXCEPT !.num_samples = @ + copied]
    /\ items' = Tail(items)
    /\ pc' = "smash_keys"
    /\ outfiles' = outfiles \cup {Head(items).key}
    /\ UNCHANGED <<job, dataset, saved, warnings, events>>

\* lines 201-207: only the quant.sf files of the n samples are copied
QuantSfOnly(n) ==
    /\ \E copied \in 0..n : job_context' = [job_context EXCEPT !.num_samples = @ + copied]
    /\ items' = Tail(items)
    /\ pc' = "smash_keys"
    /\ UNCHANGED <<job, dataset, saved, outfiles, warnings, events>>

\* lines 321-322: _smash_key for the next key of the dataset
SmashKey ==
    /\ pc = "smash_keys"
    /\ items # <<>>
    /\ IF dataset.quant_sf_only
       THEN QuantSfOnly(Head(items).files)
       ELSE \E loaded \in Loaded(Head(items).files),
               q \in IF dataset.quantile_normalize THEN QnOutcomes ELSE {"ok"} :
               \/ KeyReturned(_smash_key(St, Head(items).key, loaded, q))
               \/ KeyRaised(_smash_key(St, Head(items).key, loaded, q))
    /\ UNCHANGED <<RUNNING_IN_CLOUD, trace, emails, slack, joinVars, surveyVars, downloadVars>>

\* lines 324-351: the metadata files and the archive, once every key is done
SmashAllArchive ==
    /\ pc = "smash_keys"
    /\ items = <<>>
    /\ \/ /\ Becomes([St EXCEPT
                         !.job_context = [@ EXCEPT !.output_file = "smashed.zip"],
                         !.dataset = [@ EXCEPT !.success = "True"],
                         !.saved = [dataset EXCEPT !.success = "True"]])
          /\ UNCHANGED events
       \/ \* write_non_data_files or make_archive raises
          /\ Becomes(smash_all_except(St, "cannot build the archive"))
          /\ events' = events \cup {"packaging_failed"}
    /\ pc' = StageAfter("_smash_all")
    /\ UNCHANGED <<items, RUNNING_IN_CLOUD, trace, emails, slack, outfiles, warnings,
                   joinVars, surveyVars, downloadVars>>

\* an except clause of _upload that also fails the dataset (mutant)
upload_except_fails_dataset(st, e) ==
    [st EXCEPT !.job = [@ EXCEPT !.success = "False", !.failure_reason = FailureReason(e)],
               !.dataset = [@ EXCEPT !.success = "False"]]

\* lines 397-402: the except clause of _upload
upload_except(st, e) ==
    [st EXCEPT !.job = [@ EXCEPT !.success = "False", !.failure_reason = FailureReason(e)]]

\* lines 365-395: the archive is uploaded and its location recorded and saved
uploaded(st) ==
    LET ds == [st.dataset EXCEPT !.s3_key = st.job_context.output_file]
    IN  [st EXCEPT !.job_context = [@ EXCEPT !.result_url = "https://s3.amazonaws.com/" \o
                                                            st.job_context.output_file],
                   !.dataset = ds,
                   !.saved = ds]

\* lines 354-404: _upload
Upload ==
    /\ pc = "_upload"
    /\ trace' = Append(trace, "_upload")
    /\ IF job_context.output_file = "None"
       THEN \* line 358: there has been a failure already
            UNCHANGED <<job, dataset, saved, job_context, events>>
       ELSE IF job_context.upload /\ RUNNING_IN_CLOUD
            THEN \/ /\ Becomes(uploaded(St))
                    /\ UNCHANGED events
                 \/ /\ Becomes(upload_except(St, "cannot upload"))
                    /\ events' = events \cup {"upload_failed"}
            ELSE UNCHANGED <<job, dataset, saved, job_context, events>>
    /\ pc' = StageAfter("_upload")
    /\ UNCHANGED <<items, RUNNING_IN_CLOUD, emails, slack, outfiles, warnings, joinVars, surveyVars, downloadVars>>

\* a close-out that leaves a failed dataset as it is (mutant)
closed_out_unless_failed(ds) ==
    IF ds.success = "False"
    THEN ds
    ELSE [ds EXCEPT !.is_processing = FALSE, !.is_processed = TRUE, !.is_available = TRUE]

\* lines 538-541: the dataset is closed out
closed_out(ds) ==
    [ds EXCEPT !.is_processing = FALSE, !.is_processed = TRUE, !.is_available = TRUE]

\* lines 535-547: _update_result_objects; when dataset.save() raises, the
\* executor captures the exception
UpdateResultObjects ==
    /\ pc = "_update_result_objects"
    /\ trace' = Append(trace, "_update_result_objects")
    /\ \/ /\ Becomes([St EXCEPT !.dataset = closed_out(dataset),
                                !.saved = closed_out(dataset),
                                !.job_context = [@ EXCEPT !.success = "True"]])
          /\ UNCHANGED events
       \/ /\ Becomes(captured([St EXCEPT !.dataset = closed_out(dataset)],
                              "cannot save the dataset"))
          /\ events' = events \cup {"stage_raised"}
    /\ pc' = StageAfter("_update_result_objects")
    /\ UNCHANGED <<items, RUNNING_IN_CLOUD, emails, slack, outfiles, warnings, joinVars, surveyVars, downloadVars>>

\* utils.end_job, last stage of the pipeline
EndJob ==
    /\ pc = "end_job"
    /\ trace' = Append(trace, "end_job")
    /\ pc' = StageAfter("end_job")
    /\ UNCHANGED <<job, dataset, saved, job_context, items, RUNNING_IN_CLOUD, emails,
                   slack, events, outfiles, warnings, joinVars, surveyVars, downloadVars>>

\* a notifier that alerts the operators whatever the job's state (mutant)
alerts_operators_always(j) == TRUE

\* line 413: the operators are alerted when the job is marked failed
alerts_operators(j) == j.success = "False"

\* a mail that always announces success (mutant)
outcome_message_always_ready(j, ds) ==
    [to      |-> ds.email_address,
     subject |-> "Your refine.bio Dataset is Ready!",
     error   |-> "None"]

\* lines 482-503: the message _notify_send_email composes
outcome_message(j, ds) ==
    IF j.success = "False"
    THEN [to      |-> ds.email_address,
          subject |-> "There was a problem processing your refine.bio dataset :(",
          error   |-> j.failure_reason]
    ELSE [to      |-> ds.email_address,
          subject |-> "Your refine.bio Dataset is Ready!",
          error   |-> "None"]

\* a notifier that marks the job failed when the mail cannot be sent (mutant)
after_send_failure_job_failed(j) == [j EXCEPT !.success = "False"]

\* lines 425-434: the job record when send_email raised (the exception is
\* raised again as ProcessorJobError; the record is not written)
after_send_failure(j) == j

\* lines 406-436: _notify, called by smash once run_pipeline has returned
Notify ==
    /\ pc = "_notify"
    /\ trace' = Append(trace, "_notify")
    /\ IF ~job_context.upload \/ ~RUNNING_IN_CLOUD
       THEN \* line 410
            /\ pc' = "returned"
            /\ UNCHANGED <<job, job_context, emails, slack, events>>
       ELSE \E slack_ok, mail_ok \in BOOLEAN :
            LET alert == alerts_operators(job)
                mail  == dataset.email_address # ""
                fails == (IF alert /\ ~slack_ok THEN {"slack_failed"} ELSE {})
                         \cup (IF mail /\ ~mail_ok THEN {"email_failed"} ELSE {})
            IN  /\ slack' = IF alert /\ slack_ok
                            THEN Append(slack, [text |-> job.failure_reason])
                            ELSE slack
                /\ emails' = IF mail /\ mail_ok
                             THEN Append(emails, outcome_message(job, dataset))
                             ELSE emails
                \* line 498
                /\ job_context' = IF mail /\ job.success = "False"
                                  THEN [job_context EXCEPT !.success = "False"]
                                  ELSE job_context
                /\ job' = IF mail /\ ~mail_ok THEN after_send_failure(job) ELSE job
                /\ events' = events \cup fails
                /\ pc' = IF mail /\ ~mail_ok THEN "raised" ELSE "returned"
    /\ UNCHANGED <<dataset, saved, items, RUNNING_IN_CLOUD, outfiles, warnings, joinVars, surveyVars, downloadVars>>

\* smash(job_id, upload) is called for a dataset that is being processed
Init ==
    /\ pc = "start_job"
    /\ job = NewJob
    /\ \E quantile_normalize, quant_sf_only \in BOOLEAN,
          scale_by \in {"NONE", "MINMAX"},
          email_address \in {"", "user@example.org"} :
          /\ dataset = NewDataset(quantile_normalize, quant_sf_only, scale_by, email_address)
          /\ saved = NewDataset(quantile_normalize, quant_sf_only, scale_by, email_address)
    /\ \E upload \in BOOLEAN : job_context = NewContext(upload)
    /\ RUNNING_IN_CLOUD \in BOOLEAN
    /\ items = <<>>
    /\ trace = <<>>
    /\ emails = <<>>
    /\ slack = <<>>
    /\ events = {}
    /\ warnings = <<>>
    /\ outfiles = {}
    /\ merged = EmptyFrame
    /\ merged_backup = EmptyFrame
    /\ old_len_merged = 0
    /\ i = 0
    /\ accepted = {}
    /\ NoSurvey
    /\ NoDownload

Next ==
    \/ StartJob
    \/ PrepareFiles
    \/ SmashAllBegin
    \/ SmashKey
    \/ SmashAllArchive
    \/ Upload
    \/ UpdateResultObjects
    \/ EndJob
    \/ Notify

Spec == Init /\ [][Next]_vars

-----------------------------------------------------------------------------
(* Claims about _inner_join (SpecJoin) *)

\* the candidate of the iteration about to run
Candidate == job_context.all_frames[i + 1]

InLoop == pc = "_inner_join" /\ i < Len(job_context.all_frames)

\* some column name of frame is a column name of m
SharesColumn(m, frame) == Range(frame.columns) \cap Range(m.columns) # {}

\* the row labels m and frame have in common
SharedRows(m, frame) == Range(m.index) \cap Range(frame.index)

\* the iteration about to run joins the candidate and the join has no rows
EmptyJoinAhead ==
    InLoop /\ ~SharesColumn(merged, Candidate) /\ SharedRows(merged, Candidate) = {}

LastWarning == warnings[Len(warnings)].msg

\* C8 as stated: whenever the join of the accumulator with the candidate has
\* zero rows, the accumulator is unchanged, unsmashable_files grows by exactly
\* one entry, the candidate's lead column name, and nothing else of the job
\* context changes.
C8_RollbackAlwaysRecords ==
    [][EmptyJoinAhead =>
          /\ merged' = merged
          /\ Len(job_context'.unsmashable_files) = Len(job_context.unsmashable_files) + 1
          /\ Len(Candidate.columns) > 0 =>
                job_context'.unsmashable_files =
                    Append(job_context.unsmashable_files, Candidate.columns[1])
          /\ [job_context' EXCEPT !.unsmashable_files = <<>>] =
             [job_context EXCEPT !.unsmashable_files = <<>>]
          /\ UNCHANGED <<job, dataset>>]_vars

\* C8 amended: whenever the join of the accumulator with the candidate has
\* zero rows, the accumulator after the step equals the accumulator before it
\* (rows, columns, values); if the candidate has a column, its lead column
\* name is appended to unsmashable_files exactly once, and if it has none
\* unsmashable_files is unchanged; nothing else of the job context changes.
C8_Rollback ==
    [][EmptyJoinAhead =>
          /\ merged' = merged
          /\ job_context'.unsmashable_files =
                IF Len(Candidate.columns) > 0
                THEN Append(job_context.unsmashable_files, Candidate.columns[1])
                ELSE job_context.unsmashable_files
          /\ [job_context' EXCEPT !.unsmashable_files = <<>>] =
             [job_context EXCEPT !.unsmashable_files = <<>>]
          /\ UNCHANGED <<job, dataset>>]_vars

\* C8 witness: a candidate with rows and a column was rolled back from an
\* accumulator that has rows, and its lead column is the newest entry of
\* unsmashable_files
C8_Witness ==
    /\ pc = "_inner_join"
    /\ i >= 2
    /\ Len(warnings) > 0 /\ LastWarning = "Skipping a bad merge frame!"
    /\ len(merged) > 0
    /\ len(job_context.all_frames[i]) > 0
    /\ Len(job_context.all_frames[i].columns) > 0
    /\ Len(job_context.unsmashable_files) > 0
    /\ job_context.unsmashable_files[Len(job_context.unsmashable_files)] =
           job_context.all_frames[i].columns[1]

\* C9: a candidate that has a column name already in the accumulator is
\* skipped in full: the accumulator (rows, columns, values) and the job
\* context are what they were, and the loop goes on to the next frame.
C9_DuplicateSkipped ==
    [][(InLoop /\ SharesColumn(merged, Candidate)) =>
          /\ merged' = merged
          /\ job_context' = job_context
          /\ i' = i + 1
          /\ pc' = "_inner_join"]_vars

\* C9 witness: a two-column candidate of which one column was new has just
\* been skipped, and another frame is still to come
C9_Witness ==
    /\ InLoop
    /\ i >= 2
    /\ Len(warnings) > 0 /\ LastWarning = "Column repeated for smash job!"
    /\ \E c \in Range(job_context.all_frames[i].columns) : c \notin Range(merged.columns)
    /\ len(job_context.all_frames[i]) > 0

\* the row labels every accepted frame has
AcceptedRows ==
    {r \in Features : \A k \in accepted : InSeq(r, job_context.all_frames[k + 1].index)}

\* C10: at every step of _inner_join and at its end, the rows of the
\* accumulator are among the rows common to all accepted frames (the first
\* frame and every frame whose join was committed), so the accumulator has at
\* most as many rows as the smallest accepted frame.
C10_RowsWithinAccepted ==
    /\ Range(merged.index) \subseteq AcceptedRows
    /\ \A k \in accepted : len(merged) <= len(job_context.all_frames[k + 1])

\* C10 witness: _inner_join has returned after committing two joins, one of
\* which dropped a row, and after turning away one frame
C10_Witness ==
    /\ pc = "joined"
    /\ Cardinality(accepted) = 2
    /\ Len(job_context.all_frames) = 3
    /\ len(merged) = 1
    /\ len(job_context.all_frames[1]) = 2


-----------------------------------------------------------------------------
(* Claims about one run of smash (Spec) *)

\* smash has returned to its caller, or an exception has left it
Ended == pc \in {"returned", "raised"}

\* the calls of one run: the stages of the pipeline, then _notify
Stages == Pipeline \o <<"_notify">>

\* the failures _smash_all records on the dataset
DatasetFailures == {"qn_failed", "packaging_failed"}

\* the failures after which the job is marked failed
JobFailures == DatasetFailures \cup {"upload_failed", "stage_raised"}

Delivers == job_context.upload /\ RUNNING_IN_CLOUD

\* C1 as stated: within one run, once dataset.success is False no later step
\* sets it to True, even when the remaining keys are smashed and the archive
\* is built afterwards.
C1_SuccessNeverResetTrue ==
    [][dataset.success = "False" => dataset'.success # "True"]_vars

\* C2: once normalization or a caught exception in _smash_all has marked the
\* job failed, the run does not stop: the job stays marked failed, the stages
\* invoked so far are the pipeline's stages in order with none left out, a
\* next step exists until smash has ended, and when smash has ended every
\* stage and then _notify has been called.
C2_FailedRunGoesOn ==
    (events \cap DatasetFailures # {}) =>
        /\ job.success = "False"
        /\ Len(trace) <= Len(Stages) /\ trace = SubSeq(Stages, 1, Len(trace))
        /\ IF Ended
           THEN trace = Stages
           ELSE /\ ENABLED Next
                /\ pc = "smash_keys" \/ pc = Stages[Len(trace) + 1]

\* C2 witness: the run of a dataset whose normalization failed has ended
\* after the archive was built, and _notify was the last call
C2_Witness ==
    /\ Ended
    /\ "qn_failed" \in events /\ "packaging_failed" \notin events
    /\ job_context.output_file # "None"
    /\ trace[Len(trace)] = "_notify"

C4_ExactlyOneMessage == Ended => Len(emails) = 1

\* C4 amended: a run sends at most one outcome message, and exactly one when
\* the run delivers (upload requested and running in the cloud), the dataset
\* has an e-mail address and the mail service accepts the message; otherwise
\* none.  The message goes to the dataset's address; it is the failure message
\* carrying job.failure_reason when the job is marked failed, else the success
\* message.
C4_AtMostOneMessage ==
    /\ Len(emails) <= 1
    /\ Ended => (Len(emails) = 1 <=>
                    Delivers /\ dataset.email_address # "" /\ "email_failed" \notin events)
    /\ \A n \in DOMAIN emails :
           /\ emails[n].to = dataset.email_address
           /\ IF job.success = "False"
              THEN /\ emails[n].subject =
                          "There was a problem processing your refine.bio dataset :("
                   /\ emails[n].error = job.failure_reason
              ELSE /\ emails[n].subject = "Your refine.bio Dataset is Ready!"
                   /\ emails[n].error = "None"

\* C4 witness: a run whose normalization failed has ended with one message,
\* the failure message with the reason; no alert went to the operators
C4_Witness ==
    /\ Ended
    /\ "qn_failed" \in events
    /\ Len(emails) = 1
    /\ emails[1].error = FailureReason("QN service error")
    /\ slack = <<>>

\* C5 as stated: the operators are alerted only if normalization or packaging
\* failed in the run; a run whose only problems are excluded samples,
\* rolled-back merges or a failed upload sends no alert.  (Runs in which the
\* executor captured an exception are left aside.)
C5_AlertOnlyOnDatasetFailure ==
    (slack # <<>> /\ "stage_raised" \notin events) => events \cap DatasetFailures # {}

\* C5 amended: the operators are alerted at most once, and only if the job is
\* marked failed when _notify runs: after a normalization failure, a packaging
\* failure, a failed upload or an exception the executor captured.  The alert
\* carries job.failure_reason.  A run that delivers and whose job is marked
\* failed sends the alert unless the post to Slack fails; a run whose only
\* problems are excluded samples or rolled-back merges sends none.
C5_AlertWhenJobFailed ==
    /\ Len(slack) <= 1
    /\ slack # <<>> =>
           /\ events \cap JobFailures # {}
           /\ job.success = "False"
           /\ slack[1].text = job.failure_reason
    /\ (Ended /\ Delivers /\ job.success = "False" /\ "slack_failed" \notin events) =>
           Len(slack) = 1

\* C5 witness: the only failure of the run was the upload, samples were
\* excluded and a merge rolled back, and the operators were alerted
C5_Witness ==
    /\ Ended
    /\ events \cap JobFailures = {"upload_failed"}
    /\ {"unusable", "rollback"} \subseteq events
    /\ Len(slack) = 1
    /\ slack[1].text = FailureReason("cannot upload")

\* C6 as stated: job.success and dataset.success after _upload and after
\* _notify equal their values before the step, whether or not the upload or a
\* notification failed.
C6_DeliveryLeavesSuccessAlone ==
    [][(pc \in {"_upload", "_notify"}) =>
          /\ job'.success = job.success
          /\ dataset'.success = dataset.success]_vars

\* C6 amended: _notify never changes job.success or dataset.success, whether
\* the alert or the mail fails or not, and _upload never changes
\* dataset.success; but a failed upload marks the job failed (job.success =
\* False, with the failure reason), and an upload that does not fail leaves
\* job.success as it was.
C6_UploadFailureFailsJob ==
    [][/\ pc = "_notify" =>
              /\ job'.success = job.success
              /\ dataset'.success = dataset.success
       /\ pc = "_upload" =>
              /\ dataset'.success = dataset.success
              /\ IF "upload_failed" \in events'
                 THEN /\ job'.success = "False"
                      /\ job'.failure_reason = FailureReason("cannot upload")
                 ELSE job'.success = job.success]_vars

\* C6 witness: the upload failed and then the mail could not be sent; the job
\* is marked failed and the dataset still counts as smashed
C6_Witness ==
    /\ pc = "raised"
    /\ {"upload_failed", "email_failed"} \subseteq events
    /\ events \cap DatasetFailures = {}
    /\ job.success = "False"
    /\ dataset.success = "True"

\* C7: in a run with no normalization failure, no packaging exception and no
\* exception captured by the executor, whatever files were unusable, frames
\* repeated a column or merges came out empty, _smash_key returns for every
\* key and the loop goes on to the next one; once _smash_all is over every key
\* has been processed, the archive is built, dataset.success is True, and the
\* job is not marked failed (unless the upload fails afterwards).
C7_AbsorbedProblems ==
    /\ []((pc \notin {"start_job", "prepare_files", "_smash_all", "smash_keys"}
           /\ events \cap (DatasetFailures \cup {"stage_raised"}) = {}) =>
              /\ items = <<>> /\ job_context.input_files = <<>>
              /\ job_context.output_file = "smashed.zip"
              /\ dataset.success = "True"
              /\ "upload_failed" \notin events => job.success = "None")
    /\ [][(pc = "smash_keys" /\ items # <<>> /\ events' \cap DatasetFailures = {}) =>
              /\ items' = Tail(items)
              /\ pc' = "smash_keys"
              /\ job'.success = "None"]_vars

\* C7 witness: a run in which one frame of a key repeated a column and the
\* merge of another was rolled back has returned; the key's matrix is
\* written, the archive is built and nothing failed
C7_Witness ==
    /\ pc = "returned"
    /\ {"duplicate", "rollback"} \subseteq events
    /\ events \cap JobFailures = {}
    /\ outfiles = {KeyNames[1]}
    /\ Len(job_context.unsmashable_files) = 1
    /\ job_context.output_file = "smashed.zip"
    /\ dataset.success = "True"
    /\ job.success = "None"

-----------------------------------------------------------------------------
(* The reference fold of a frame list (claims C11, C12) *)

\* the column names of the frames at the positions a
RefColumnNames(frames, a) == UNION {Range(frames[a[n]].columns) : n \in DOMAIN a}

\* the row labels of the first frame that every frame at the positions a has
RefRows(frames, a) ==
    SelectSeq(frames[1].index, LAMBDA r : \A n \in DOMAIN a : InSeq(r, frames[a[n]].index))

\* the positions of the frames the reference fold accepts, in list order: the
\* first frame, then every frame that shares no column name with the frames
\* accepted before it and has a row in common with all of them
RefAccepted(frames) ==
    LET acc[n \in 1..Len(frames)] ==
            IF n = 1
            THEN <<1>>
            ELSE IF Range(frames[n].columns) \cap RefColumnNames(frames, acc[n - 1]) # {}
                 THEN acc[n - 1]
                 ELSE IF Range(RefRows(frames, acc[n - 1])) \cap Range(frames[n].index) = {}
                      THEN acc[n - 1]
                      ELSE Append(acc[n - 1], n)
    IN  acc[Len(frames)]

\* the columns of the frames at the positions a, in order, each as the pair
\* <<position of the frame, position of the column in the frame>>
RefSources(frames, a) ==
    LET flat[n \in 0..Len(a)] ==
            IF n = 0
            THEN <<>>
            ELSE flat[n - 1] \o [c \in 1..Len(frames[a[n]].columns) |-> <<a[n], c>>]
    IN  flat[Len(a)]

\* the matrix over the rows idx whose columns are src: every cell is the cell
\* of its source frame at the same row label
RefCells(frames, idx, src) ==
    [index   |-> idx,
     columns |-> [c \in DOMAIN src |-> frames[src[c][1]].columns[src[c][2]]],
     data    |-> [p \in (1..Len(idx)) \X (1..Len(src)) |->
                     frames[src[p[2]][1]].data[<<Pos(frames[src[p[2]][1]].index, idx[p[1]]),
                                                 src[p[2]][2]>>]]]

\* the reference fold of a non-empty frame list
RefFold(frames) ==
    RefCells(frames, RefRows(frames, RefAccepted(frames)),
             RefSources(frames, RefAccepted(frames)))

\* the scenario of the specification: three single-column frames with the
\* features {A,B,C}, {B,C,D} and {A,B}
ExampleFrames ==
    <<Frame(1, <<"A", "B", "C">>, <<"s1">>),
      Frame(2, <<"B", "C", "D">>, <<"s2">>),
      Frame(3, <<"A", "B">>, <<"s3">>)>>

\* C11: at every step of _inner_join, and when it returns, the accumulator
\* equals the reference fold of the frames looked at so far: its rows are the
\* rows (in the first frame's order) common to the accepted frames, its
\* columns are the accepted frames' columns in acceptance order, and every
\* cell is the cell of its source frame; the frames the loop committed are the
\* frames the fold accepts.  On the frames {A,B,C}, {B,C,D}, {A,B} the result
\* is {B,C} after two frames and {B} after three, with no rollback.
C11_ReferenceFold ==
    /\ pc \in {"_inner_join", "joined"} =>
           /\ merged = RefFold(SubSeq(job_context.all_frames, 1, i))
           /\ accepted = {k - 1 : k \in Range(RefAccepted(SubSeq(job_context.all_frames, 1, i)))}
           /\ Range(merged.index) = AcceptedRows
    /\ _inner_join(SubSeq(ExampleFrames, 1, 2), <<>>).merged.index = <<"B", "C">>
    /\ _inner_join(ExampleFrames, <<>>).merged =
           [index   |-> <<"B">>,
            columns |-> <<"s1", "s2", "s3">>,
            data    |-> [p \in {1} \X {1, 2, 3} |->
                            Cell(p[2], "B", ExampleFrames[p[2]].columns[1])]]
    /\ \A w \in Range(_inner_join(ExampleFrames, <<>>).warnings) :
           w.msg = "Dropped rows while smashing!"
    /\ _inner_join(ExampleFrames, <<>>).unsmashable_files = <<>>

\* C11 witness: _inner_join has returned the matrix of the first and the
\* third of three frames, the second having been turned away; the first frame
\* has rows A and B, the matrix has row B only, and its two cells are the
\* cells of the first and of the third frame
C11_Witness ==
    /\ pc = "joined"
    /\ accepted = {0, 2}
    /\ job_context.all_frames[1].index = <<"A", "B">>
    /\ merged.index = <<"B">>
    /\ merged.columns = <<"s1", "s2">>
    /\ merged.data[<<1, 1>>] = Cell(1, "B", "s1")
    /\ merged.data[<<1, 2>>] = Cell(3, "B", "s2")

\* the one-to-one maps of 1..n onto itself
Perms(n) == {f \in [1..n -> 1..n] : \A a, b \in 1..n : f[a] = f[b] => a = b}

\* the frame list in the order f
Reordered(frames, f) == [k \in DOMAIN frames |-> frames[f[k]]]

\* the frame list with its k-th frame moved to the front
MovedToFront(frames, k) ==
    <<frames[k]>> \o SubSeq(frames, 1, k - 1) \o SubSeq(frames, k + 1, Len(frames))

\* rows, columns and unsmashable entries of a result of _inner_join
Labels(r) == <<r.merged.index, r.merged.columns, r.unsmashable_files>>

\* the same, whatever the order of the rows and of the columns
LabelSets(r) == <<Range(r.merged.index), Range(r.merged.columns), r.unsmashable_files>>

\* what the call of _inner_join in progress has appended to unsmashable_files
Appended == SelectSeq(job_context.unsmashable_files, LAMBDA x : x \in Samples)

\* the result of the call of _inner_join in progress
Returned == [merged |-> merged, unsmashable_files |-> Appended]

TurnedAway(w) ==
    w.msg \in {"Column repeated for smash job!", "Skipping a bad merge frame!"}

\* C12 as stated: whenever _inner_join skipped a frame for a repeated column
\* or rolled one back, some re-ordering of the frame list gives different
\* rows, columns or unsmashable entries.
C12_ReorderingAlwaysDiffers ==
    (pc = "joined" /\ \E w \in Range(warnings) : TurnedAway(w)) =>
        \E f \in Perms(Len(job_context.all_frames)) :
            Labels(_inner_join(Reordered(job_context.all_frames, f), <<>>)) # Labels(Returned)

\* C12 amended: the result of _inner_join depends on the order of the frames
\* only through skips and rollbacks.  If no frame was skipped or rolled back,
\* every re-ordering gives the same rows, the same columns (up to their order)
\* and no unsmashable entry.  If a frame that has a row was rolled back, the
\* final rows share nothing with that frame's rows, while the list with that
\* frame moved to the front ends with some of that frame's rows and only
\* those: the re-ordering changes the rows.  (After a skip for a repeated
\* column the re-ordered result may be the same: see C12_ReorderingAlwaysDiffers.)
C12_OrderSensitive ==
    pc = "joined" =>
        /\ (\A w \in Range(warnings) : ~TurnedAway(w)) =>
               \A f \in Perms(Len(job_context.all_frames)) :
                   LabelSets(_inner_join(Reordered(job_context.all_frames, f), <<>>)) =
                       LabelSets(Returned)
        /\ \A w \in Range(warnings) :
               (/\ w.msg = "Skipping a bad merge frame!"
                /\ len(job_context.all_frames[w.bad_frame_number]) > 0) =>
                   /\ SharedRows(merged, job_context.all_frames[w.bad_frame_number]) = {}
                   /\ len(_inner_join(MovedToFront(job_context.all_frames,
                                                   w.bad_frame_number), <<>>).merged) > 0
                   /\ Range(_inner_join(MovedToFront(job_context.all_frames,
                                                     w.bad_frame_number), <<>>).merged.index)
                          \subseteq Range(job_context.all_frames[w.bad_frame_number].index)

\* C12 witness: of three frames the third, which has a row and a column, was
\* rolled back after a join was committed; with it in front the result has
\* other rows, other columns and other unsmashable entries
C12_Witness ==
    /\ pc = "joined"
    /\ accepted = {0, 1}
    /\ Len(job_context.all_frames) = 3
    /\ len(job_context.all_frames[3]) > 0
    /\ Len(job_context.all_frames[3].columns) > 0
    /\ Appended = <<job_context.all_frames[3].columns[1]>>
    /\ Labels(_inner_join(MovedToFront(job_context.all_frames, 3), <<>>)) # Labels(Returned)
    /\ Len(_inner_join(MovedToFront(job_context.all_frames, 3), <<>>).unsmashable_files) = 1
    /\ _inner_join(MovedToFront(job_context.all_frames, 3), <<>>).unsmashable_files # Appended

\* no label occurs twice in the sequence s
Distinct(s) == \A a, b \in DOMAIN s : s[a] = s[b] => a = b

\* C13: at every step of _inner_join (the frames' own column names being
\* distinct) no column name occurs twice in the accumulator, and every column
\* of the accumulator is contributed by one frame: all its cells come from
\* the same accepted frame.
C13_NoRepeatedColumn ==
    pc \in {"_inner_join", "joined"} =>
        /\ Distinct(merged.columns)
        /\ \A c \in DOMAIN merged.columns :
               \E k \in accepted :
                   /\ InSeq(merged.columns[c], job_context.all_frames[k + 1].columns)
                   /\ \A r \in DOMAIN merged.index : merged.data[<<r, c>>].src = k + 1

\* C13 witness: the loop has committed a join and has turned away a frame
\* one of whose columns was in the accumulator; the accumulator has the two
\* columns of two frames
C13_Witness ==
    /\ pc = "joined"
    /\ Cardinality(accepted) = 2
    /\ Len(merged.columns) = 2
    /\ len(merged) > 0
    /\ \E w \in Range(warnings) : w.msg = "Column repeated for smash job!"
    /\ merged.data[<<1, 1>>].src # merged.data[<<1, 2>>].src

-----------------------------------------------------------------------------
(* Claims about _smash_key and _smash_all (Spec) *)

\* the step is _smash_key for the next key of a dataset that is not quant_sf_only
SmashesKey == pc = "smash_keys" /\ items # <<>> /\ ~dataset.quant_sf_only

\* C14: when the key _smash_key works on ends up with no usable frame
\* (all_frames is empty after loading), the step writes no matrix file,
\* leaves the job and the dataset (success flags, failure reasons) and the
\* saved dataset as they were, and returns to the loop of _smash_all, which
\* goes on with the next key or, after the last key, with the archive.
C14_KeyWithoutFrames ==
    /\ [][(SmashesKey /\ job_context'.all_frames = <<>>) =>
              /\ outfiles' = outfiles
              /\ job_context'.smash_outfile = job_context.smash_outfile
              /\ job_context'.final_frame = job_context.final_frame
              /\ UNCHANGED <<job, dataset, saved>>
              /\ events' \ events \subseteq {"unusable"}
              /\ items' = Tail(items)
              /\ pc' = "smash_keys"]_vars
    /\ [](pc = "smash_keys" => ENABLED (SmashKey \/ SmashAllArchive))

\* C14 witness: the first key had files but no usable frame, the second key
\* was smashed after it, the archive was built and the run returned with
\* nothing marked failed
C14_Witness ==
    /\ pc = "returned"
    /\ outfiles = {KeyNames[2]}
    /\ events = {"unusable"}
    /\ Len(job_context.unsmashable_files) = 2
    /\ job_context.output_file = "smashed.zip"
    /\ dataset.success = "True"
    /\ job.success = "None"

\* how many of the first j input files the loader returned a frame for
UsableUpTo(loaded, j) == Cardinality({k \in 1..j : loaded[k] # <<>>})

\* the file names of key among the entries of unsmashable_files, in order
FilesOf(key, n, unsmashable_files) ==
    SelectSeq(unsmashable_files, LAMBDA x : x \in {FileName(key, j) : j \in 1..n})

\* every input file is in its one place: the j-th file's frame is the frame
\* of all_frames at its rank among the usable files, or its name is the entry
\* of files at its rank among the unusable ones
InOnePlace(loaded, key, frames, files, unsmashable_files) ==
    \A j \in DOMAIN loaded :
        IF loaded[j] # <<>>
        THEN /\ UsableUpTo(loaded, j) \in DOMAIN frames
             /\ frames[UsableUpTo(loaded, j)] = Frame(j, loaded[j][1][1], loaded[j][1][2])
             /\ ~InSeq(FileName(key, j), unsmashable_files)
        ELSE /\ j - UsableUpTo(loaded, j) \in DOMAIN files
             /\ files[j - UsableUpTo(loaded, j)] = FileName(key, j)

\* C15: after process_frames_for_key every input file of the key is in
\* exactly one of two places: its frame is in all_frames, or (the loader
\* returned None) its file name has been appended to unsmashable_files; both
\* lists keep the order of the input files, what was in unsmashable_files
\* before is kept, and the number of frames plus the number of file names
\* newly recorded is the number of input files.
C15_FramesOrUnsmashable ==
    [][SmashesKey =>
          \E loaded \in Loaded(Head(items).files) :
              /\ Len(job_context'.all_frames)
                    + Len(FilesOf(Head(items).key, Head(items).files,
                                  job_context'.unsmashable_files))
                        = Head(items).files
              /\ InOnePlace(loaded, Head(items).key, job_context'.all_frames,
                            FilesOf(Head(items).key, Head(items).files,
                                    job_context'.unsmashable_files),
                            job_context'.unsmashable_files)
              /\ SubSeq(job_context'.unsmashable_files, 1,
                        Len(job_context.unsmashable_files)) = job_context.unsmashable_files
      ]_vars

\* C15 witness: of the three input files of a key the second was unusable;
\* all_frames holds the frames of the first and the third, in that order, and
\* unsmashable_files the name of the second
C15_Witness ==
    /\ pc = "smash_keys"
    /\ Len(job_context.all_frames) = 2
    /\ job_context.all_frames[1].data[<<1, 1>>].src = 1
    /\ job_context.all_frames[2].data[<<1, 1>>].src = 3
    /\ Len(job_context.unsmashable_files) > 0
    /\ job_context.unsmashable_files[1] = FileName(KeyNames[1], 2)

\* the service fails: it raises, or it returns without a normalized matrix
QnFailures == {"raise", "unset"}

\* the text of the exception _smash_key sees when the service fails as q
QnDetail(q) == IF q = "raise" THEN "QN service error" ELSE NoMergedQn

\* the result r of _smash_key records a normalization failure with the text e
RecordsQnFailure(r, e) ==
    /\ r.st.job.success = "False"
    /\ r.st.dataset.success = "False"
    /\ r.st.job.failure_reason = FailureReason(e)
    /\ r.st.dataset.failure_reason = FailureReason(e)
    /\ r.st.saved = r.st.dataset
    /\ r.st.job_context.failure_reason = e
    /\ r.outfile = <<>>

\* C16 as stated: whenever _smash_key is about to run for a key of a dataset
\* to be quantile normalized, then for whatever usable frames the loader
\* returns, if the normalization service raises or returns without a
\* normalized matrix, _smash_key records that failure: its detail is the
\* failure reason of job and dataset, dataset.success and job.success are
\* False, the dataset is saved, and _smash_key returns (no matrix is written).
C16_QnFailureRecorded ==
    (SmashesKey /\ dataset.quantile_normalize) =>
        \A loaded \in Loaded(Head(items).files), q \in QnFailures :
            (\E j \in DOMAIN loaded : loaded[j] # <<>>) =>
                RecordsQnFailure(_smash_key(St, Head(items).key, loaded, q), QnDetail(q))

\* the step is _smash_key for the next key, whatever the dataset
NextKey == pc = "smash_keys" /\ items # <<>>

\* the dataset asks for the normalization service
Normalizes == dataset.quantile_normalize /\ ~dataset.quant_sf_only

\* no cell of the frame has been rewritten by the normalization service
NotNormalized(frame) == \A p \in DOMAIN frame.data : ~frame.data[p].qn

\* C17: the normalization service is invoked for a key only when the dataset
\* has quantile_normalize set and quant_sf_only not set.  In every other
\* configuration a step of _smash_key leaves merged_no_qn and merged_qn alone
\* and records no normalization failure, its result is the same whatever the
\* service would do, and (quant_sf_only not set, the key having a usable
\* frame) the merged matrix itself goes to scaling: the final frame is the
\* scaled original_merged and no cell of it is normalized.  With
\* quantile_normalize set and quant_sf_only not set, a key with a usable
\* frame does hand its merged matrix to the service (merged_no_qn).
C17_NormalizesOnlyOnRequest ==
    /\ []((SmashesKey /\ ~Normalizes) =>
              \A loaded \in Loaded(Head(items).files), q \in QnOutcomes :
                  _smash_key(St, Head(items).key, loaded, q) =
                      _smash_key(St, Head(items).key, loaded, "ok"))
    /\ [][(NextKey /\ ~Normalizes) =>
              /\ job_context'.merged_no_qn = job_context.merged_no_qn
              /\ job_context'.merged_qn = job_context.merged_qn
              /\ "qn_failed" \notin events'
              /\ (~dataset.quant_sf_only /\ job_context'.all_frames # <<>>) =>
                     /\ job_context'.final_frame =
                            <<final_frame(job_context'.original_merged[1], dataset.scale_by)>>
                     /\ NotNormalized(job_context'.final_frame[1])]_vars
    /\ [][(NextKey /\ Normalizes /\ job_context'.all_frames # <<>>) =>
              job_context'.merged_no_qn = job_context'.original_merged]_vars

\* C17 witness: a dataset that does not ask for normalization has had a key
\* with two merged frames scaled; nothing was handed to the service
C17_Witness ==
    /\ pc = "smash_keys"
    /\ ~dataset.quantile_normalize /\ ~dataset.quant_sf_only
    /\ dataset.scale_by = "MINMAX"
    /\ Len(job_context.final_frame) = 1
    /\ Len(job_context.final_frame[1].columns) = 2
    /\ job_context.final_frame[1].data[<<1, 1>>].scaled = "MINMAX"
    /\ ~job_context.final_frame[1].data[<<1, 1>>].qn
    /\ job_context.merged_no_qn = <<>> /\ job_context.merged_qn = <<>>

\* C18: with quant_sf_only set, _smash_key for a key only copies the samples'
\* quant.sf files and adds the number copied (at most the number of the key's
\* samples) to num_samples: nothing else of the job context changes (no
\* frame in all_frames, no entry in unsmashable_files, no merged, normalized
\* or final frame), no <key>.tsv is written, nothing is logged about a join,
\* job and dataset keep their success flags and failure reasons, and the loop
\* of _smash_all goes on.
C18_QuantSfOnly ==
    [][(NextKey /\ dataset.quant_sf_only) =>
          /\ \E copied \in 0..Head(items).files :
                 job_context' = [job_context EXCEPT !.num_samples = @ + copied]
          /\ outfiles' = outfiles
          /\ UNCHANGED <<job, dataset, saved, events, warnings>>
          /\ items' = Tail(items)
          /\ pc' = "smash_keys"]_vars

\* C18 witness: both keys of a quant_sf_only dataset are done; three files
\* were copied, no frame was loaded and no matrix written
C18_Witness ==
    /\ pc = "smash_keys"
    /\ dataset.quant_sf_only /\ dataset.quantile_normalize
    /\ items = <<>>
    /\ job_context.input_files = <<>>
    /\ job_context.num_samples = 3
    /\ job_context.all_frames = <<>>
    /\ job_context.unsmashable_files = <<>>
    /\ outfiles = {}
    /\ dataset.success = "None" /\ job.success = "None"

\* the texts of the exceptions _smash_all may catch
PackagingErrors == {"cannot write the matrix", "cannot build the archive"}

\* C19: when an exception is raised while a key is smashed, the metadata
\* files are written or the archive is built, _smash_all sets dataset.success
\* and job.success to False, records "Failure reason: " and the exception
\* text on job and dataset and the text in the context, saves the dataset,
\* leaves output_file unset and returns, so that the next stage is invoked;
\* the flags stay False and output_file unset for the rest of the run, and
\* the run ends after _notify has been called.
C19_PackagingFailure ==
    /\ [][("packaging_failed" \in events' /\ "packaging_failed" \notin events) =>
              /\ pc = "smash_keys"
              /\ \E e \in PackagingErrors :
                     /\ job'.failure_reason = FailureReason(e)
                     /\ dataset'.failure_reason = FailureReason(e)
                     /\ job_context'.failure_reason = e
              /\ job'.success = "False"
              /\ dataset'.success = "False"
              /\ saved' = dataset'
              /\ job_context'.output_file = "None"
              /\ pc' = "_upload"]_vars
    /\ []("packaging_failed" \in events =>
              /\ job.success = "False"
              /\ dataset.success = "False"
              /\ job_context.output_file = "None"
              /\ Ended => trace[Len(trace)] = "_notify")

\* C19 witness: the matrix of a key was written, building the archive raised,
\* and the run has returned after mailing the failure reason
C19_Witness ==
    /\ pc = "returned"
    /\ "packaging_failed" \in events
    /\ outfiles # {}
    /\ job.failure_reason = FailureReason("cannot build the archive")
    /\ dataset.failure_reason = job.failure_reason
    /\ job_context.output_file = "None"
    /\ dataset.s3_key = "None"
    /\ Len(emails) = 1
    /\ emails[1].error = job.failure_reason

\* the matrix _smash_key hands to the scaling step: the normalized matrix
\* when the dataset is quantile normalized, else the merged one
ScalingInput(ctx) ==
    IF dataset.quantile_normalize THEN ctx.merged_qn[1] ELSE ctx.original_merged[1]

\* frame has the layout of m, and each of its cells is the cell of m at the
\* same place with its value rewritten by the scaler
SameLayout(frame, m, scale_by) ==
    /\ frame.index = m.index
    /\ frame.columns = m.columns
    /\ DOMAIN frame.data = DOMAIN m.data
    /\ \A p \in DOMAIN m.data : frame.data[p] = [m.data[p] EXCEPT !.scaled = scale_by]

\* C20: whenever _smash_key reaches the scaling step for a key, the final
\* frame has features as rows and samples as columns; with scale_by = NONE it
\* is identical to the matrix handed to scaling (merged, or normalized), and
\* with another method it has the same row labels and column labels in the
\* same order, hence the same counts, and only the values are rewritten.
C20_ScalingKeepsLayout ==
    [][(SmashesKey /\ job_context'.smash_outfile = Head(items).key) =>
          /\ Len(job_context'.final_frame) = 1
          /\ Range(job_context'.final_frame[1].index) \subseteq Features
          /\ Range(job_context'.final_frame[1].columns) \subseteq Samples
          /\ IF dataset.scale_by = "NONE"
             THEN job_context'.final_frame[1] = ScalingInput(job_context')
             ELSE /\ SameLayout(job_context'.final_frame[1], ScalingInput(job_context'),
                                dataset.scale_by)
                  /\ len(job_context'.final_frame[1]) = len(ScalingInput(job_context'))
                  /\ Len(job_context'.final_frame[1].columns) =
                         Len(ScalingInput(job_context').columns)]_vars

\* C20 witness: the normalized matrix of a key, one row and two columns, has
\* been scaled: the final frame has row A and the columns s1 and s2, in that
\* order, and its cells are scaled
C20_Witness ==
    /\ pc = "smash_keys"
    /\ dataset.quantile_normalize
    /\ dataset.scale_by = "MINMAX"
    /\ job_context.smash_outfile = KeyNames[1]
    /\ Len(job_context.final_frame) = 1
    /\ job_context.final_frame[1].index = <<"A">>
    /\ job_context.final_frame[1].columns = <<"s1", "s2">>
    /\ job_context.final_frame[1].data[<<1, 2>>] =
           [src |-> 2, row |-> "A", col |-> "s2", qn |-> TRUE, scaled |-> "MINMAX"]

-----------------------------------------------------------------------------
(* Claims about _upload and _update_result_objects (Spec) *)

\* C21: when the job is marked failed at the start of _upload, _upload
\* uploads nothing and records no remote location on the dataset, in memory
\* or saved, nor a result URL in the context.
C21_NoUploadAfterFailure ==
    [][(pc = "_upload" /\ job.success = "False") =>
          /\ dataset'.s3_key = dataset.s3_key
          /\ saved'.s3_key = saved.s3_key
          /\ job_context'.result_url = job_context.result_url]_vars

\* C29: whenever _update_result_objects runs, whatever the job and the
\* dataset were marked before, the dataset has is_processing = False,
\* is_processed = True and is_available = True afterwards, and when the stage
\* returns (dataset.save() did not raise) the dataset is saved so and the
\* context's success flag is True.
C29_DatasetClosedOut ==
    [][(pc = "_update_result_objects") =>
          /\ ~dataset'.is_processing /\ dataset'.is_processed /\ dataset'.is_available
          /\ job'.failure_reason # "cannot save the dataset" =>
                /\ saved' = dataset'
                /\ job_context'.success = "True"]_vars

\* C29 witness: _update_result_objects has returned in a run whose job and
\* dataset an earlier stage marked failed
C29_Witness ==
    /\ pc = "end_job"
    /\ job.success = "False"
    /\ dataset.success = "False"
    /\ ~dataset.is_processing /\ dataset.is_processed /\ dataset.is_available
    /\ saved = dataset
    /\ job_context.success = "True"

-----------------------------------------------------------------------------
(* SpecSurvey: one call of TranscriptomeIndexSurveyor._generate_files *)

\* a Python value: its type and what str() makes of it
PyNone == [type |-> "NoneType", repr |-> "None"]
PyInt(r) == [type |-> "int", repr |-> r]
PyStr(r) == [type |-> "str", repr |-> r]
PyList(r) == [type |-> "list", repr |-> r]

\* a key the dictionary does not have
Absent == [type |-> "absent", repr |-> ""]

\* str(v): a string with the text of v, whatever the type of v was
str(v) == PyStr(v.repr)

\* the divisions of Ensembl a survey job can name
Divisions == {"Ensembl", "EnsemblProtists", "EnsemblFungi", "EnsemblPlants"}

\* the dictionary with the keys of r that are not Absent
Dict(r) == [k \in {x \in DOMAIN r : r[x] # Absent} |-> r[k]]

\* parsed JSON of the Division API for one species: the main division names
\* its fields assembly and taxon_id, the others assembly_name and taxonomy_id
SpeciesInputs ==
    {Dict(r) : r \in [division      : {PyStr(d) : d \in Divisions},
                      name          : {PyStr("homo_sapiens"), PyStr("mus_musculus")},
                      assembly      : {Absent, PyStr("GRCh38")},
                      assembly_name : {Absent, PyStr("GRCh38"), PyStr("TIGR")},
                      taxon_id      : {Absent, PyInt("9606")},
                      taxonomy_id   : {Absent, PyInt("9606"), PyStr("9606")},
                      aliases       : {Absent, PyList("[]")},
                      groups        : {Absent, PyList("['core']"), PyNone},
                      strain        : {Absent, PyStr("K-12"), PyNone}]}

\* dict.pop(k) for a key the dictionary has: the dictionary without k
pop(d, k) == [x \in DOMAIN d \ {k} |-> d[x]]

\* str.capitalize() on the species names
capitalize(name) ==
    CASE name = "homo_sapiens" -> "Homo_sapiens"
      [] name = "mus_musculus" -> "Mus_musculus"

\* lines 39-48: EnsemblUrlBuilder.__init__ raises KeyError without these keys
KeyErrorIn(sp) == ~({"assembly_name", "name", "taxonomy_id"} \subseteq DOMAIN sp)

\* lines 39-48: EnsemblUrlBuilder(species)
EnsemblUrlBuilder(sp) ==
    [class            |-> "EnsemblUrlBuilder",
     assembly         |-> sp["assembly_name"],
     species_sub_dir  |-> sp["name"].repr,
     filename_species |-> capitalize(sp["name"].repr),
     taxonomy_id      |-> sp["taxonomy_id"]]

\* lines 128-133: the factory
ensembl_url_builder_factory(sp) == EnsemblUrlBuilder(sp)

\* lines 148-151: the four fields that are not stored
NotStored == {"taxon_id", "taxonomy_id", "aliases", "groups"}

\* lines 139-161: _clean_metadata
_clean_metadata(sp) ==
    LET kept == {k \in DOMAIN sp \ NotStored : sp[k].type # "NoneType"}
    IN  [k \in kept |-> str(sp[k])]

\* the variables of the other programs, which a survey leaves alone
NoRun ==
    /\ job = NewJob
    /\ dataset = NewDataset(FALSE, FALSE, "NONE", "")
    /\ saved = NewDataset(FALSE, FALSE, "NONE", "")
    /\ job_context = NewContext(TRUE)
    /\ items = <<>>
    /\ RUNNING_IN_CLOUD = FALSE
    /\ trace = <<>>
    /\ emails = <<>>
    /\ slack = <<>>
    /\ events = {}
    /\ warnings = <<>>
    /\ outfiles = {}
    /\ merged = EmptyFrame
    /\ merged_backup = EmptyFrame
    /\ old_len_merged = 0
    /\ i = 0
    /\ accepted = {}

\* _generate_files(species) is called for one species of the division
InitSurvey ==
    /\ pc = "_generate_files"
    /\ species \in SpeciesInputs
    /\ given = species
    /\ url_builder = "None"
    /\ all_new_files = <<>>
    /\ NoRun
    /\ NoDownload

\* lines 164-166: the builder is made (its constructor asks the release
\* service for the assembly version) and the two URLs are built
UrlBuilder ==
    /\ pc = "_generate_files"
    /\ IF KeyErrorIn(species)
       THEN /\ pc' = "raised"
            /\ UNCHANGED url_builder
       ELSE \/ /\ url_builder' = ensembl_url_builder_factory(species)
               /\ pc' = "pop_division"
            \/ /\ pc' = "raised"
               /\ UNCHANGED url_builder
    /\ UNCHANGED <<species, given, all_new_files, job_context, warnings, joinVars, runVars,
                   downloadVars>>

\* line 168: species.pop("division")
PopDivision ==
    /\ pc = "pop_division"
    /\ species' = pop(species, "division")
    /\ pc' = "_clean_metadata"
    /\ UNCHANGED <<given, url_builder, all_new_files, job_context, warnings, joinVars,
                   runVars, downloadVars>>

\* line 169: self._clean_metadata(species)
CleanMetadata ==
    /\ pc = "_clean_metadata"
    /\ species' = _clean_metadata(species)
    /\ pc' = "original_files"
    /\ UNCHANGED <<given, url_builder, all_new_files, job_context, warnings, joinVars,
                   runVars, downloadVars>>

\* lines 171-191: the two OriginalFile records are saved and returned
OriginalFiles ==
    /\ pc = "original_files"
    /\ all_new_files' = <<url_builder.filename_species \o ".fa.gz",
                          url_builder.filename_species \o ".gtf.gz">>
    /\ pc' = "generated"
    /\ UNCHANGED <<species, given, url_builder, job_context, warnings, joinVars, runVars,
                   downloadVars>>

NextSurvey == UrlBuilder \/ PopDivision \/ CleanMetadata \/ OriginalFiles

SpecSurvey == InitSurvey /\ [][NextSurvey]_vars

-----------------------------------------------------------------------------
(* Claims about the transcriptome index surveyor (SpecSurvey) *)

\* the class the division of a species calls for
ClassOfDivision(division) ==
    CASE division = "Ensembl" -> "MainEnsemblUrlBuilder"
      [] division = "EnsemblProtists" -> "EnsemblProtistsUrlBuilder"
      [] division = "EnsemblFungi" -> "EnsemblFungiUrlBuilder"
      [] OTHER -> "EnsemblUrlBuilder"

\* C22: the object the factory returns for a species has the class of the
\* species' division: the main, the protists and the fungi division have
\* their own builder, every other division the base builder.
C22_BuilderByDivision ==
    pc \in {"pop_division", "_clean_metadata", "original_files", "generated"} =>
        url_builder.class = ClassOfDivision(given["division"].repr)

\* the dictionary _clean_metadata was called with
Uncleaned == pop(given, "division")

\* C23: _clean_metadata removes exactly taxon_id, taxonomy_id, aliases and
\* groups; every other key of its input is in the result, with its value
\* cast to a string, None included.
C23_CleanedMetadata ==
    pc \in {"original_files", "generated"} =>
        /\ DOMAIN species = DOMAIN Uncleaned \ NotStored
        /\ \A k \in DOMAIN species : species[k] = str(Uncleaned[k])

-----------------------------------------------------------------------------
(* SpecDownload: one call of download_array_express *)

\* the download_url of a batch
Urls == {"u1", "u2"}

\* the batches related to the job, by their download_url
BatchLists == UNION {[1..n -> Urls] : n \in 0..MaxBatches}

\* download_array_express(job_id) is called
InitDownload ==
    /\ pc = "get_job"
    /\ job_found \in BOOLEAN
    /\ batches \in BatchLists
    /\ success = "None"
    /\ temp_directory = FALSE
    /\ zip_ref = "unbound"
    /\ raised = <<>>
    /\ calls = <<>>
    /\ NoRun
    /\ NoSurvey

\* a verification that looks at the second batch only (mutant)
_verify_batch_grouping_second_only(bs) ==
    Len(bs) < 2 \/ bs[2] = bs[1]

\* lines 27-34: _verify_batch_grouping returns (TRUE) or raises ValueError
_verify_batch_grouping(bs) ==
    \A b \in DOMAIN bs : bs[b] = bs[1]

\* an except clause that leaves success as it was (mutant)
except_clause_keeps_success(s) == s

\* lines 112-115: the except clause of download_array_express
except_clause(s) == "False"

\* what can happen in _extract_file: the zip cannot be opened, extractall
\* raises, upload_raw_file raises for batch n, or nothing raises
ExtractOutcomes(bs) ==
    {[at |-> "ZipFile", n |-> 0], [at |-> "extractall", n |-> 0], [at |-> "return", n |-> 0]}
    \cup {[at |-> "upload_raw_file", n |-> n] : n \in DOMAIN bs}

\* the calls of lines 63-67 up to the one that raises
extract_try(bs, o) ==
    CASE o.at = "ZipFile" -> <<"ZipFile">>
      [] o.at = "extractall" -> <<"ZipFile", "extractall">>
      [] o.at = "upload_raw_file" ->
            <<"ZipFile", "extractall">> \o [b \in 1..o.n |-> "upload_raw_file"]
      [] o.at = "return" ->
            <<"ZipFile", "extractall">> \o [b \in DOMAIN bs |-> "upload_raw_file"]

\* the exception of the try block of _extract_file, "None" without one
extract_exception(o) ==
    CASE o.at = "ZipFile" -> "BadZipFile"
      [] o.at = "extractall" -> "OSError"
      [] o.at = "upload_raw_file" -> "UploadError"
      [] o.at = "return" -> "None"

\* lines 54-75: _extract_file. When ZipFile raises, zip_ref is not bound:
\* zip_ref.close() of line 74 raises UnboundLocalError and line 75 is not
\* reached
_extract_file(bs, o) ==
    IF o.at = "ZipFile"
    THEN [calls          |-> extract_try(bs, o),
          zip_ref        |-> "unbound",
          temp_directory |-> TRUE,
          raised         |-> <<extract_exception(o), "UnboundLocalError">>]
    ELSE [calls          |-> extract_try(bs, o) \o <<"close", "remove_temp_directory">>,
          zip_ref        |-> "closed",
          temp_directory |-> FALSE,
          raised         |-> <<extract_exception(o), extract_exception(o)>>]

\* lines 82-85: the job record is looked up
GetJob ==
    /\ pc = "get_job"
    /\ pc' = IF job_found THEN "start_job" ELSE "done"
    /\ UNCHANGED <<job_context, warnings, joinVars, runVars, surveyVars, downloadVars>>

\* lines 87-88: success = True; utils.start_job(job)
DownloadStartJob ==
    /\ pc = "start_job" /\ job_found
    /\ success' = "True"
    /\ calls' = Append(calls, "start_job")
    /\ pc' = "batches"
    /\ UNCHANGED <<job_found, batches, temp_directory, zip_ref, raised,
                   job_context, warnings, joinVars, runVars, surveyVars>>

\* lines 90-101: the batches are collected; with batches the temporary
\* directory is made, without them success = False
Batches ==
    /\ pc = "batches"
    /\ IF Len(batches) > 0
       THEN /\ temp_directory' = TRUE
            /\ calls' = Append(calls, "makedirs")
            /\ pc' = "_verify_batch_grouping"
            /\ UNCHANGED success
       ELSE /\ success' = "False"
            /\ pc' = "end_job"
            /\ UNCHANGED <<temp_directory, calls>>
    /\ UNCHANGED <<job_found, batches, zip_ref, raised,
                   job_context, warnings, joinVars, runVars, surveyVars>>

\* lines 103-105 and 112-115: the grouping is verified
VerifyBatchGrouping ==
    /\ pc = "_verify_batch_grouping"
    /\ calls' = Append(calls, "_verify_batch_grouping")
    /\ IF _verify_batch_grouping(batches)
       THEN /\ pc' = "_download_file"
            /\ UNCHANGED success
       ELSE /\ success' = except_clause(success)
            /\ pc' = "end_job"
    /\ UNCHANGED <<job_found, batches, temp_directory, zip_ref, raised,
                   job_context, warnings, joinVars, runVars, surveyVars>>

\* lines 110, 37-51 and 112-115: the one file is downloaded; open() or
\* urlopen() may raise
DownloadFile ==
    /\ pc = "_download_file"
    /\ \/ /\ calls' = calls \o <<"_download_file", "open", "urlopen", "return _download_file">>
          /\ pc' = "_extract_file"
          /\ UNCHANGED success
       \/ /\ calls' = calls \o <<"_download_file", "open", "urlopen">>
          /\ success' = except_clause(success)
          /\ pc' = "end_job"
       \/ /\ calls' = calls \o <<"_download_file", "open">>
          /\ success' = except_clause(success)
          /\ pc' = "end_job"
    /\ UNCHANGED <<job_found, batches, temp_directory, zip_ref, raised,
                   job_context, warnings, joinVars, runVars, surveyVars>>

\* lines 111, 54-75 and 112-115: the zip is extracted and the raw files
\* uploaded
ExtractFile ==
    /\ pc = "_extract_file"
    /\ \E o \in ExtractOutcomes(batches) :
          /\ calls' = calls \o <<"_extract_file">> \o _extract_file(batches, o).calls
          /\ zip_ref' = _extract_file(batches, o).zip_ref
          /\ temp_directory' = _extract_file(batches, o).temp_directory
          /\ raised' = _extract_file(batches, o).raised
          /\ success' = IF _extract_file(batches, o).raised[2] = "None"
                        THEN success
                        ELSE except_clause(success)
    /\ pc' = "end_job"
    /\ UNCHANGED <<job_found, batches,
                   job_context, warnings, joinVars, runVars, surveyVars>>

\* lines 117-122: utils.end_job(job, batches, success)
DownloadEndJob ==
    /\ pc = "end_job" /\ job_found
    /\ calls' = Append(calls, "end_job(" \o success \o ")")
    /\ pc' = "done"
    /\ UNCHANGED <<job_found, batches, success, temp_directory, zip_ref, raised,
                   job_context, warnings, joinVars, runVars, surveyVars>>

NextDownload ==
    \/ GetJob
    \/ DownloadStartJob
    \/ Batches
    \/ VerifyBatchGrouping
    \/ DownloadFile
    \/ ExtractFile
    \/ DownloadEndJob

SpecDownload == InitDownload /\ [][NextDownload]_vars

-----------------------------------------------------------------------------
(* Claims about the ArrayExpress downloader (SpecDownload) *)

\* how many times call c was made
Count(c) == Cardinality({n \in DOMAIN calls : calls[n] = c})

\* every batch has the download_url of the first
SameUrl == \A b \in DOMAIN batches : batches[b] = batches[1]

\* what was called before a download that returned normally
BeforeExtraction ==
    <<"start_job", "makedirs", "_verify_batch_grouping",
      "_download_file", "open", "urlopen", "return _download_file">>

\* C24: at most one file is downloaded per job, and none unless every batch
\* has the download_url of the first batch; _extract_file is called only
\* after _download_file returned normally, which itself comes after the
\* verification: the order is verify, download, extract.
C24_VerifyDownloadExtract ==
    /\ Count("_download_file") <= 1
    /\ Count("urlopen") <= 1
    /\ Count("_download_file") + Count("urlopen") > 0 => SameUrl /\ Len(batches) > 0
    /\ \A e \in DOMAIN calls :
          /\ calls[e] = "_extract_file" => SubSeq(calls, 1, e - 1) = BeforeExtraction
          /\ calls[e] = "_download_file" =>
                 e > 1 /\ calls[e - 1] = "_verify_batch_grouping"

\* C24 witness: a job with three batches of one URL has verified, downloaded
\* its one file and extracted it
C24_Witness ==
    /\ pc = "done"
    /\ Len(batches) = 3
    /\ SameUrl
    /\ Count("urlopen") = 1
    /\ Count("upload_raw_file") = 3
    /\ success = "True"

\* the job has batches, and verification, download and extraction all
\* completed without exception
AllCompleted ==
    /\ Len(batches) > 0
    /\ SameUrl
    /\ Count("return _download_file") = 1
    /\ raised # <<>>
    /\ raised[2] = "None"

\* C25: when the job record exists, start_job is the first call and is made
\* once, before any download; the run always goes on to end_job, which is
\* made once, as the last call, with success = True exactly when the job has
\* batches and verification, download and extraction completed without
\* exception. When the job record does not exist, nothing is called.
C25_StartAndEndJob ==
    /\ Count("start_job") <= 1
    /\ Count("end_job(True)") + Count("end_job(False)") <= 1
    /\ calls # <<>> => calls[1] = "start_job"
    /\ ~job_found => calls = <<>>
    /\ pc # "done" => ENABLED NextDownload
    /\ (pc = "done" /\ job_found) =>
          /\ Count("start_job") = 1
          /\ calls[Len(calls)] = IF AllCompleted THEN "end_job(True)" ELSE "end_job(False)"

\* C25 witness: the upload of a raw file failed during extraction and the
\* job was ended as failed
C25_Witness ==
    /\ pc = "done"
    /\ job_found
    /\ raised = <<"UploadError", "UploadError">>
    /\ calls[1] = "start_job"
    /\ calls[Len(calls)] = "end_job(False)"

\* C26: when _extract_file has returned or raised, the job's temporary
\* directory is removed, and an exception it raises is the original one.
C26_TempDirectoryRemoved ==
    raised # <<>> =>
        /\ ~temp_directory
        /\ raised[2] = raised[1]

-----------------------------------------------------------------------------
(* Further claims about _inner_join (SpecJoinFair, SpecJoin) *)

\* the frames turned away so far: each logged one of these two warnings
TurnedAwayCount ==
    Cardinality({w \in DOMAIN warnings :
                    warnings[w].msg \in {"Column repeated for smash job!",
                                         "Skipping a bad merge frame!"}})

\* C27: _inner_join returns for every non-empty frame list; every iteration
\* takes the frame at the loop index and raises the index by exactly one,
\* whether it ends in a skip, a rollback or a commit, so that at the return
\* every frame after the first was considered once, in list order: the
\* frames accepted and the frames turned away are as many as the index.
C27_Terminates ==
    /\ <>(pc = "joined")
    /\ [][InLoop => /\ i' = i + 1
                    /\ pc' = "_inner_join"
                    /\ job_context'.all_frames = job_context.all_frames]_vars
    /\ [](pc = "joined" => i = Len(job_context.all_frames))
    /\ [](pc = "_inner_join" => i \in 1..Len(job_context.all_frames))
    /\ [](pc \in {"_inner_join", "joined"} => Cardinality(accepted) + TurnedAwayCount = i)

\* C27 witness: _inner_join has returned from a list of three frames of which
\* one was skipped for a repeated column and one rolled back
C27_Witness ==
    /\ pc = "joined"
    /\ i = 3
    /\ Len(job_context.all_frames) = 3
    /\ accepted = {0}
    /\ \E w \in DOMAIN warnings : warnings[w].msg = "Column repeated for smash job!"
    /\ \E w \in DOMAIN warnings : warnings[w].msg = "Skipping a bad merge frame!"

\* C28: when the first frame has a row, the accumulator and its snapshot
\* have a row after every step of _inner_join and at its return, whatever
\* frames follow.
C28_NeverEmptied ==
    (pc \in {"_inner_join", "joined"} /\ len(job_context.all_frames[1]) > 0) =>
        /\ len(merged) > 0
        /\ len(merged_backup) > 0
        /\ Range(merged.index) \subseteq Range(job_context.all_frames[1].index)

\* C28 witness: _inner_join has returned, with rows, from a one-row first
\* frame followed by a frame without rows and a frame with another row
C28_Witness ==
    /\ pc = "joined"
    /\ Len(job_context.all_frames) = 3
    /\ len(job_context.all_frames[1]) = 1
    /\ len(job_context.all_frames[2]) = 0
    /\ len(job_context.all_frames[3]) = 1
    /\ SharedRows(job_context.all_frames[1], job_context.all_frames[3]) = {}
    /\ accepted = {0}
    /\ len(merged) = 1

\* the first column of frame that is a column of m
FirstConflict(m, frame) ==
    frame.columns[CHOOSE c \in DOMAIN frame.columns :
                      /\ InSeq(frame.columns[c], m.columns)
                      /\ \A d \in 1..(c - 1) : ~InSeq(frame.columns[d], m.columns)]

\* C30: when a candidate is turned away for a repeated column, the column
\* named in the warning is the first column of the candidate that is also a
\* column of the accumulator.
C30_FirstConflictReported ==
    [][(InLoop /\ SharesColumn(merged, Candidate)) =>
          /\ Len(warnings') = Len(warnings) + 1
          /\ warnings'[Len(warnings')].msg = "Column repeated for smash job!"
          /\ warnings'[Len(warnings')].column = FirstConflict(merged, Candidate)]_vars

=============================================================================
